---- MODULE Spec2Model ----
(***************************************************************************)
(* The provably-fair dice game of game.py, game2.py and gam4.py as one     *)
(* state machine.  The three files are variants of the same program; the   *)
(* variable `variant` says which one runs.  One process, blocking only at  *)
(* input(): an action is one call (determine_first_move's prologue, one    *)
(* pass of a prompt loop, one play_turn of the computer, the throws).      *)
(*                                                                         *)
(* secrets.token_bytes(32) is modelled as a fresh key identifier (nextKey); *)
(* HMAC-SHA3-256 as the symbolic pair of its key and message.  Everything  *)
(* printed or read is appended to `log`, the console transcript, together  *)
(* with the key generations and keyed-hash uses that produce it.           *)
(***************************************************************************)
EXTENDS Integers, Sequences, FiniteSets, TLC

VARIABLES variant, pc, dice_list, available_dice, computer_dice, user_dice,
          first_player, secret_key, nextKey, random_number, stored_choice,
          computer_choice, user_choice, index, computer_throw, user_throw,
          invalid, log, argv, dice_sides, arg_index, error, arg_lower, arg_upper,
          random_value, fair_number, twin_available_dice, twin_computer_dice,
          twin_user_dice

vars == <<variant, pc, dice_list, available_dice, computer_dice, user_dice,
          first_player, secret_key, nextKey, random_number, stored_choice,
          computer_choice, user_choice, index, computer_throw, user_throw,
          invalid, log, argv, dice_sides, arg_index, error, arg_lower, arg_upper,
          random_value, fair_number, twin_available_dice, twin_computer_dice,
          twin_user_dice>>

\* validate_arguments' input, locals and the error it raises.
valvars == <<argv, dice_sides, arg_index, error>>

\* generate_fair_number's arguments, its sample and its result.
drawvars == <<arg_lower, arg_upper, random_value, fair_number>>

\* The pool and the two selected dice of a second run of play_game, which
\* has the dice set, first_player and random draws of the first.
twinvars == <<twin_available_dice, twin_computer_dice, twin_user_dice>>

(* ------------------------------ bounds -------------------------------- *)

\* Largest face count of a session's dice (the smallest is MinFaces).
MaxFaces == 5
\* Invalid or help entries typed in one session.
MaxInvalid == 1
\* Raw 16-bit samples are drawn from both ends of the sample space:
\* 0..RawEdge-1 and SampleSpace-RawEdge..SampleSpace-1.
RawEdge == 8
\* Face counts of the combination-rule specification.
MaxCombFaces == 8

(* ------------------------- program constants -------------------------- *)

MinFaces == 4
SampleSpace == 65536

Variants == {"game", "game2", "gam4"}

\* None for a die reference, and for a number not yet assigned.
NoDie == 0
Unset == -1

(* ------------------------------- dice --------------------------------- *)

Asc(n) == [i \in 1..n |-> i]
Desc(n) == [i \in 1..n |-> n + 1 - i]
Flat(n) == [i \in 1..n |-> 2]

\* The validated dice sets of the sessions checked: two dice with the same
\* faces and a third, and two dice whose faces all carry one value.
DiceLists ==
    UNION {{ <<Asc(n), Asc(n), Desc(n)>>, <<Flat(n), Asc(n), Flat(n)>> } :
           n \in MinFaces..MaxFaces}

\* A die is referred to by its position in dice_list: Python compares Dice
\* objects by identity (class Dice defines no __eq__).
Values(d) == dice_list[d]
FaceCount(d) == Len(dice_list[d])

(* ------------------------------ strings ------------------------------- *)

Digits == <<"0", "1", "2", "3", "4", "5", "6", "7", "8", "9">>

DigitValue(c) == CHOOSE d \in 0..9 : Digits[d + 1] = c

\* "sup2" is the character U+00B2: str.isdigit() accepts it, int() does not.
IsDigitChar(c) == (\E d \in 1..10 : Digits[d] = c) \/ c = "sup2"

RECURSIVE Str(_)
Str(v) == IF v < 10 THEN <<Digits[v + 1]>>
          ELSE Str(v \div 10) \o <<Digits[(v % 10) + 1]>>

RECURSIVE LStrip(_)
LStrip(s) == IF s # <<>> /\ Head(s) = " " THEN LStrip(Tail(s)) ELSE s

RECURSIVE RStrip(_)
RStrip(s) == IF s # <<>> /\ s[Len(s)] = " "
             THEN RStrip(SubSeq(s, 1, Len(s) - 1)) ELSE s

Strip(s) == RStrip(LStrip(s))

Lower(s) == [i \in 1..Len(s) |-> IF s[i] = "X" THEN "x" ELSE s[i]]

IsDigit(s) == s # <<>> /\ \A i \in 1..Len(s) : IsDigitChar(s[i])

\* int(s) for a string that passed isdigit(); Unset stands for ValueError.
RECURSIVE IntOf(_)
IntOf(s) ==
    IF \E i \in 1..Len(s) : s[i] = "sup2" THEN Unset
    ELSE IF Len(s) = 1 THEN DigitValue(s[1])
    ELSE 10 * IntOf(SubSeq(s, 1, Len(s) - 1)) + DigitValue(s[Len(s)])

\* The lines typed at the prompts.
Inputs == { <<>>, <<"0">>, <<"1">>, <<"2">>, <<"3">>, <<"4">>, <<"5">>, <<"9">>,
            <<"x">>, <<"X">>, <<"?">>, <<"a">>, <<" ", "1", " ">>, <<"0", "1">>,
            <<"1", "0">>, <<"sup2">>, <<"-", "1">> }

(* ------------------------- keys and hashing --------------------------- *)

\* generate_secure_key: 32 bytes of secrets.token_bytes, a value never
\* returned before.
GenerateSecureKey == nextKey

\* hmac.new(key, message, sha3_256): the symbolic keyed hash.
Hmac(key, message) == [key |-> key, msg |-> message]

\* .hexdigest() renders in lower case, .upper() in upper case.
HexDigest(mac) == [mac |-> mac, case |-> "lower"]
Upper(hex) == [hex EXCEPT !.case = "upper"]

NoDigest == HexDigest(Hmac(Unset, <<>>))

\* determine_first_move: HMAC of str(random_number), printed in upper case.
CommitDigest(value, key) == Upper(HexDigest(Hmac(key, Str(value))))

\* generate_hmac of game2.py: HMAC of str(value), printed as it is.
GenerateHmac(value, key) == HexDigest(Hmac(key, Str(value)))

(* --------------------------- random numbers --------------------------- *)

RawSamples == (0..(RawEdge - 1)) \cup ((SampleSpace - RawEdge)..(SampleSpace - 1))

\* game.py, gam4.py: the first two bytes of an HMAC, reduced modulo the range.
FairNumbersModulo(lower, upper) ==
    { (raw % (upper - lower + 1)) + lower : raw \in RawSamples }

\* game2.py: two random bytes, redrawn until below the threshold.
FairNumbersRejection(lower, upper) ==
    LET range_size == upper - lower + 1
        accepted == { raw \in RawSamples :
                        raw < range_size * (SampleSpace \div range_size) }
    IN  { (raw % range_size) + lower : raw \in accepted }

(* ------------------------------ the log ------------------------------- *)

Ev(ev, ex, val, key, dig) ==
    [ev |-> ev, ex |-> ex, val |-> val, key |-> key, dig |-> dig]

KeyGen(k) == Ev("keygen", "", Unset, k, NoDigest)
KeyUse(ex, k) == Ev("keyuse", ex, Unset, k, NoDigest)
Digest(ex, d) == Ev("digest", ex, Unset, Unset, d)
Reveal(ex, v, k) == Ev("reveal", ex, v, k, NoDigest)
Draw(ex, v) == Ev("draw", ex, v, Unset, NoDigest)
Select(who, d) == Ev("select", who, d, Unset, NoDigest)
Shown(what, who, v) == Ev(what, who, v, Unset, NoDigest)
Entry(kind, prompt, v) == Ev(kind, prompt, v, Unset, NoDigest)
Reported(o) == Ev("outcome", o, Unset, Unset, NoDigest)

\* The kinds of entry read at a prompt.
EntryKinds == {"accept", "invalid", "exit", "help", "error"}

(* ------------------------------ helpers ------------------------------- *)

Other(player) == IF player = "user" THEN "computer" ELSE "user"

\* Removal of the first die with equal face values, as Dice.__eq__ on the
\* values would make it.
RECURSIVE RemoveByValue(_, _)
RemoveByValue(list, x) ==
    IF list = <<>> THEN <<>>
    ELSE IF Values(Head(list)) = Values(x) THEN Tail(list)
    ELSE <<Head(list)>> \o RemoveByValue(Tail(list), x)

\* list.remove(x): the list without its first element equal to x.
RECURSIVE Remove(_, _)
Remove(list, x) ==
    IF list = <<>> THEN <<>>
    ELSE IF Head(list) = x THEN Tail(list)
    ELSE <<Head(list)>> \o Remove(Tail(list), x)

\* A comparison turned round.
FirstPlayerInverted(user_guess, number) ==
    IF user_guess = number THEN "computer" ELSE "user"

\* determine_first_move: a right guess gives the user the first move.
FirstPlayer(user_guess, number) ==
    IF user_guess = number THEN "user" ELSE "computer"

\* A key generated again for the reveal.
RevealedKeyRegenerated == nextKey

\* The key printed with "My selection"/"My choice".
RevealedKey == secret_key

\* The loop without its `break`.
AfterGuessNoBreak == "guess"

\* The position after the guess is accepted: `break`, then play_game goes on.
AfterGuess == "turn1"

\* A product in place of the sum.
FaceIndexProduct(committer, counterpart, faces) == (committer * counterpart) % faces

\* play_game: index = (computer_choice + user_choice) % len(values).
FaceIndex(committer, counterpart, faces) == (committer + counterpart) % faces

\* play_game: the comparison of the two throws.
Outcome(c_throw, u_throw) ==
    IF c_throw = u_throw THEN "tie"
    ELSE IF u_throw > c_throw THEN "user" ELSE "computer"

\* The player whose play_turn runs: the first player, then the other.
TurnPlayer == IF pc = "turn1" THEN first_player ELSE Other(first_player)

\* play_game after both play_turn calls.
AfterSelection ==
    CASE variant = "game" -> "throws"
      [] variant = "game2" -> "draw"
      [] OTHER -> "pick_computer"

(* ---------------------------- the help table ------------------------- *)

\* simulate_game divides by total - draws: every one of the simulated games
\* can be a draw when the two dice share a face value, and is when both dice
\* carry that one value on every face.
MayAllDraw(d1, d2) == \E i \in 1..Len(d1), j \in 1..Len(d2) : d1[i] = d2[j]
MustAllDraw(d1, d2) == \A i \in 1..Len(d1), j \in 1..Len(d2) : d1[i] = d2[j]

\* generate_probability_table over the ordered pairs of different dice:
\* "table" when it is printed, "crash" for the ZeroDivisionError.
HelpResults(dice) ==
    LET pairs == { p \in (1..Len(dice)) \X (1..Len(dice)) : p[1] # p[2] }
    IN  (IF \E p \in pairs : MayAllDraw(dice[p[1]], dice[p[2]])
         THEN {"crash"} ELSE {})
        \cup
        (IF \E p \in pairs : MustAllDraw(dice[p[1]], dice[p[2]])
         THEN {} ELSE {"table"})

(* ------------------------- classifying an entry ----------------------- *)

\* determine_first_move's if/elif chain on the stripped line; `?` is help
\* in game.py only.
GuessBranch(choice) ==
    IF choice = <<"0">> \/ choice = <<"1">> THEN "accept"
    ELSE IF Lower(choice) = <<"x">> THEN "exit"
    ELSE IF variant = "game" /\ Lower(choice) = <<"?">> THEN "help"
    ELSE "invalid"

\* choice.isdigit() and [0 <=] int(choice) < size: int() raises ValueError
\* on a digit character it cannot convert.
NumberBranch(choice, size) ==
    IF ~IsDigit(choice) THEN "invalid"
    ELSE IF IntOf(choice) = Unset THEN "error"
    ELSE IF IntOf(choice) < size THEN "accept"
    ELSE "invalid"

\* play_turn's prompt: game.py tests for x first; game2.py and gam4.py have
\* no exit there.
DieBranch(choice, size) ==
    IF variant = "game" /\ Lower(choice) = <<"x">> THEN "exit"
    ELSE NumberBranch(choice, size)

(* ------------------------- validate_arguments ------------------------- *)

\* len(sys.argv) below this is "Not enough dice": the program name and
\* three dice.
MinArgc == 4

\* arg.split(','): the pieces between the commas, empty ones included.
RECURSIVE Split(_)
Split(s) ==
    IF \E i \in 1..Len(s) : s[i] = ","
    THEN LET i == CHOOSE k \in 1..Len(s) :
                    s[k] = "," /\ \A j \in 1..(k - 1) : s[j] # ","
         IN  <<SubSeq(s, 1, i - 1)>> \o Split(SubSeq(s, i + 1, Len(s)))
    ELSE <<s>>

PlainDigit(c) == \E d \in 1..10 : Digits[d] = c

\* The digits of a token for int(): white space stripped, one sign dropped.
IntBody(token) ==
    LET t == Strip(token)
    IN  IF t # <<>> /\ Head(t) \in {"+", "-"} THEN Tail(t) ELSE t

\* int(token) returns; otherwise it raises ValueError.
IsIntLiteral(token) ==
    IntBody(token) # <<>> /\ \A i \in 1..Len(IntBody(token)) : PlainDigit(IntBody(token)[i])

IntValue(token) ==
    IF Head(Strip(token)) = "-" THEN 0 - IntOf(IntBody(token)) ELSE IntOf(IntBody(token))

\* list(map(int, arg.split(','))).
ParseValues(arg) == [i \in 1..Len(Split(arg)) |-> IntValue(Split(arg)[i])]

\* A count of one die fewer.
NotEnoughDiceLax(argc) == argc < MinArgc - 1

\* len(sys.argv) < 4.
NotEnoughDice(argc) == argc < MinArgc

\* len(values) < 4.
TooFewFaces(faces) == faces < MinFaces

\* The sides of the dice never compared.
SidesDifferNever(sides, faces) == FALSE

\* dice_sides is not None and len(values) != dice_sides.
SidesDiffer(sides, faces) == sides # Unset /\ faces # sides

\* The error validate_arguments raises on this argument, or "none".
ArgError(arg, sides) ==
    IF \E i \in 1..Len(Split(arg)) : ~IsIntLiteral(Split(arg)[i]) THEN "not_integer"
    ELSE IF TooFewFaces(Len(Split(arg))) THEN "too_few_faces"
    ELSE IF SidesDiffer(sides, Len(Split(arg))) THEN "inconsistent_sides"
    ELSE "none"

\* The command-line text of a die with faces below ten, and of a dice set.
RECURSIVE RenderDie(_)
RenderDie(values) ==
    IF Len(values) = 1 THEN Str(values[1])
    ELSE Str(values[1]) \o <<",">> \o RenderDie(Tail(values))

RenderArgv(dice) == [i \in 1..Len(dice) |-> RenderDie(dice[i])]

\* The dice specifications typed on the command lines checked.
Die1234 == <<"1", ",", "2", ",", "3", ",", "4">>
Die4321 == <<"4", ",", "3", ",", "2", ",", "1">>
DieSigned == <<" ", "1", ",", "+", "2", ",", "-", "3", ",", "4">>
Die123 == <<"1", ",", "2", ",", "3">>
Die12345 == <<"1", ",", "2", ",", "3", ",", "4", ",", "5">>
DieLetter == <<"1", ",", "a", ",", "3", ",", "4">>
DieTrailing == <<"1", ",", "2", ",", "3", ",", "4", ",">>
DieSuperscript == <<"1", ",", "sup2", ",", "3", ",", "4">>

SessionArgvs ==
    { <<>>,
      <<Die123>>,
      <<Die1234, Die123>>,
      <<Die1234, Die1234>>,
      <<Die1234, Die1234, Die4321>>,
      <<DieSigned, Die1234, Die4321>>,
      <<Die1234, Die1234, Die123>>,
      <<Die123, Die123, Die123>>,
      <<Die1234, Die12345, Die1234>>,
      <<Die12345, Die1234, Die1234>>,
      <<Die1234, DieLetter, Die1234>>,
      <<Die123, DieLetter, Die1234>>,
      <<Die1234, Die4321, DieTrailing>>,
      <<DieSuperscript, Die1234, Die4321>>,
      <<Die1234, Die1234, Die4321, Die123>>,
      <<<<>>, Die1234, Die1234>> }

\* The count check, then dice_sides = None and self.dice_list = [].
ValidateStart ==
    /\ pc = "validate"
    /\ IF NotEnoughDice(Len(argv) + 1)
       THEN /\ error' = "not_enough_dice"
            /\ pc' = "exit1"
            /\ UNCHANGED <<dice_list, dice_sides, arg_index>>
       ELSE /\ dice_sides' = Unset
            /\ dice_list' = <<>>
            /\ arg_index' = 1
            /\ pc' = "args"
            /\ error' = error
    /\ UNCHANGED <<variant, available_dice, computer_dice, user_dice,
                   first_player, secret_key, nextKey, random_number,
                   stored_choice, computer_choice, user_choice, index,
                   computer_throw, user_throw, invalid, log, argv, drawvars,
                   twinvars>>

\* One pass of the loop: the argument is parsed and checked, and appended
\* to self.dice_list or refused with a ValueError that __main__ reports.
ValidateArg ==
    /\ pc = "args"
    /\ arg_index <= Len(argv)
    /\ LET arg == argv[arg_index]
           raised == ArgError(arg, dice_sides)
       IN  IF raised # "none"
           THEN /\ error' = raised
                /\ pc' = "exit1"
                /\ UNCHANGED <<dice_list, dice_sides, arg_index>>
           ELSE /\ dice_list' = Append(dice_list, ParseValues(arg))
                /\ dice_sides' = Len(Split(arg))
                /\ arg_index' = arg_index + 1
                /\ UNCHANGED <<pc, error>>
    /\ UNCHANGED <<variant, available_dice, computer_dice, user_dice,
                   first_player, secret_key, nextKey, random_number,
                   stored_choice, computer_choice, user_choice, index,
                   computer_throw, user_throw, invalid, log, argv, drawvars,
                   twinvars>>

\* The loop is over: the dice are printed and play_game is called.
ValidateDone ==
    /\ pc = "args"
    /\ arg_index > Len(argv)
    /\ pc' = "start"
    /\ dice_sides' = Unset
    /\ arg_index' = 0
    /\ UNCHANGED <<variant, dice_list, available_dice, computer_dice, user_dice,
                   first_player, secret_key, nextKey, random_number,
                   stored_choice, computer_choice, user_choice, index,
                   computer_throw, user_throw, invalid, log, argv, error,
                   drawvars, twinvars>>

(* -------------------------------- Init -------------------------------- *)

\* DiceGame.__init__ and a successful validate_arguments.
Init ==
    /\ variant \in Variants
    /\ pc = "start"
    /\ dice_list \in DiceLists
    /\ available_dice = <<>>
    /\ computer_dice = NoDie
    /\ user_dice = NoDie
    /\ first_player = "none"
    /\ secret_key = 0
    /\ nextKey = 1
    /\ random_number = Unset
    /\ stored_choice = Unset
    /\ computer_choice = Unset
    /\ user_choice = Unset
    /\ index = Unset
    /\ computer_throw = Unset
    /\ user_throw = Unset
    /\ invalid = 0
    /\ log = <<KeyGen(0)>>
    /\ argv = RenderArgv(dice_list)
    /\ dice_sides = Unset
    /\ arg_index = 0
    /\ error = "none"
    /\ arg_lower = Unset
    /\ arg_upper = Unset
    /\ random_value = Unset
    /\ fair_number = Unset
    /\ twin_available_dice = <<>>
    /\ twin_computer_dice = NoDie
    /\ twin_user_dice = NoDie

(* ------------------------ determine_first_move ------------------------ *)

\* The number, the key and the published HMAC.
DetermineFirstMove ==
    /\ pc = "start"
    /\ \E number \in 0..1 :
         LET key == GenerateSecureKey IN
         /\ random_number' = number
         /\ secret_key' = key
         /\ nextKey' = nextKey + 1
         /\ log' = log \o <<KeyGen(key), KeyUse("turn", key),
                            Digest("turn", CommitDigest(number, key))>>
    /\ pc' = "guess"
    /\ UNCHANGED <<valvars, drawvars, twinvars>>
    /\ UNCHANGED <<variant, dice_list, available_dice, computer_dice, user_dice,
                   first_player, stored_choice, computer_choice, user_choice,
                   index, computer_throw, user_throw, invalid>>

\* '0' or '1': the reveal, first_player, and play_game's copy of the dice.
GuessAccept ==
    /\ pc = "guess"
    /\ \E line \in Inputs :
         LET choice == Strip(line) IN
         /\ GuessBranch(choice) = "accept"
         /\ first_player' = FirstPlayer(IntOf(choice), random_number)
         /\ log' = log \o <<Entry("accept", "turn", IntOf(choice)),
                            Reveal("turn", random_number, RevealedKey)>>
    /\ available_dice' = [i \in 1..Len(dice_list) |-> i]
    /\ pc' = AfterGuess
    /\ UNCHANGED <<valvars, drawvars, twinvars>>
    /\ UNCHANGED <<variant, dice_list, computer_dice, user_dice, secret_key,
                   nextKey, random_number, stored_choice, computer_choice,
                   user_choice, index, computer_throw, user_throw, invalid>>

\* x or X: sys.exit(0).
GuessExit ==
    /\ pc = "guess"
    /\ \E line \in Inputs : GuessBranch(Strip(line)) = "exit"
    /\ log' = Append(log, Entry("exit", "turn", Unset))
    /\ pc' = "exit0"
    /\ UNCHANGED <<valvars, drawvars, twinvars>>
    /\ UNCHANGED <<variant, dice_list, available_dice, computer_dice, user_dice,
                   first_player, secret_key, nextKey, random_number,
                   stored_choice, computer_choice, user_choice, index,
                   computer_throw, user_throw, invalid>>

\* game.py's ?: display_help, then the prompt again, or the uncaught
\* ZeroDivisionError of simulate_game.
GuessHelp ==
    /\ pc = "guess"
    /\ invalid < MaxInvalid
    /\ \E line \in Inputs : GuessBranch(Strip(line)) = "help"
    /\ \E result \in HelpResults(dice_list) :
         /\ pc' = IF result = "crash" THEN "crash" ELSE "guess"
         /\ log' = log \o <<Entry("help", "turn", Unset),
                            Shown(result, "help", Unset)>>
    /\ invalid' = invalid + 1
    /\ UNCHANGED <<valvars, drawvars, twinvars>>
    /\ UNCHANGED <<variant, dice_list, available_dice, computer_dice, user_dice,
                   first_player, secret_key, nextKey, random_number,
                   stored_choice, computer_choice, user_choice, index,
                   computer_throw, user_throw>>

\* Anything else: "Invalid choice", and the prompt again.
GuessInvalid ==
    /\ pc = "guess"
    /\ invalid < MaxInvalid
    /\ \E line \in Inputs : GuessBranch(Strip(line)) = "invalid"
    /\ log' = Append(log, Entry("invalid", "turn", Unset))
    /\ invalid' = invalid + 1
    /\ UNCHANGED <<valvars, drawvars, twinvars>>
    /\ UNCHANGED <<variant, pc, dice_list, available_dice, computer_dice,
                   user_dice, first_player, secret_key, nextKey, random_number,
                   stored_choice, computer_choice, user_choice, index,
                   computer_throw, user_throw>>

(* ------------------------------ play_turn ----------------------------- *)

DiePrompt(player) == IF player = "user" THEN "die_user" ELSE "die_computer"

\* play_game after a play_turn: the first selection is removed from the
\* pool, the second ends the selection.
TurnDone(die) ==
    IF pc = "turn1"
    THEN /\ available_dice' = Remove(available_dice, die)
         /\ pc' = "turn2"
    ELSE /\ available_dice' = available_dice
         /\ pc' = AfterSelection

\* The number game2.py's play_turn hashes and stores in self.computer_choice.
StoredNumber(computer_number) == computer_number

\* game2.py, the computer's play_turn: a new key, a random die, a fair
\* number, its HMAC, and the number stored.
PlayTurnComputer2 ==
    /\ variant = "game2"
    /\ pc \in {"turn1", "turn2"}
    /\ TurnPlayer = "computer"
    /\ \E c \in 1..Len(available_dice) :
         LET key == GenerateSecureKey
             die == available_dice[c]
         IN  \E computer_number \in FairNumbersRejection(0, FaceCount(die) - 1) :
               /\ secret_key' = key
               /\ nextKey' = nextKey + 1
               /\ computer_dice' = die
               /\ stored_choice' = StoredNumber(computer_number)
               /\ log' = log \o <<KeyGen(key), Select("computer", die),
                                  Draw("commit", computer_number),
                                  KeyUse("throw", key),
                                  Digest("throw", GenerateHmac(computer_number, key))>>
               /\ TurnDone(die)
    /\ UNCHANGED <<valvars, drawvars, twinvars>>
    /\ UNCHANGED <<variant, dice_list, user_dice, first_player, random_number,
                   computer_choice, user_choice, index, computer_throw,
                   user_throw, invalid>>

\* gam4.py, the computer's play_turn: a random die.
PlayTurnComputer4 ==
    /\ variant = "gam4"
    /\ pc \in {"turn1", "turn2"}
    /\ TurnPlayer = "computer"
    /\ \E c \in 1..Len(available_dice) :
         LET die == available_dice[c] IN
         /\ computer_dice' = die
         /\ log' = Append(log, Select("computer", die))
         /\ TurnDone(die)
    /\ UNCHANGED <<valvars, drawvars, twinvars>>
    /\ UNCHANGED <<variant, dice_list, user_dice, first_player, secret_key,
                   nextKey, random_number, stored_choice, computer_choice,
                   user_choice, index, computer_throw, user_throw, invalid>>

\* The die prompt is read for the user's play_turn, and in game.py for the
\* computer's too.
AtDiePrompt ==
    /\ pc \in {"turn1", "turn2"}
    /\ (TurnPlayer = "user" \/ variant = "game")

\* A valid index: the die goes to the player whose turn it is.
DieAccept ==
    /\ AtDiePrompt
    /\ \E line \in Inputs :
         LET choice == Strip(line)
             die == available_dice[IntOf(choice) + 1]
         IN  /\ DieBranch(choice, Len(available_dice)) = "accept"
             /\ IF TurnPlayer = "user"
                THEN user_dice' = die /\ computer_dice' = computer_dice
                ELSE computer_dice' = die /\ user_dice' = user_dice
             /\ log' = log \o <<Entry("accept", DiePrompt(TurnPlayer), IntOf(choice)),
                                Select(TurnPlayer, die)>>
             /\ TurnDone(die)
    /\ UNCHANGED <<valvars, drawvars, twinvars>>
    /\ UNCHANGED <<variant, dice_list, first_player, secret_key, nextKey,
                   random_number, stored_choice, computer_choice, user_choice,
                   index, computer_throw, user_throw, invalid>>

\* game.py: x or X at the die prompt.
DieExit ==
    /\ AtDiePrompt
    /\ \E line \in Inputs :
         DieBranch(Strip(line), Len(available_dice)) = "exit"
    /\ log' = Append(log, Entry("exit", DiePrompt(TurnPlayer), Unset))
    /\ pc' = "exit0"
    /\ UNCHANGED <<valvars, drawvars, twinvars>>
    /\ UNCHANGED <<variant, dice_list, available_dice, computer_dice, user_dice,
                   first_player, secret_key, nextKey, random_number,
                   stored_choice, computer_choice, user_choice, index,
                   computer_throw, user_throw, invalid>>

\* int() raises ValueError, which __main__ reports before sys.exit(1).
DieError ==
    /\ AtDiePrompt
    /\ \E line \in Inputs :
         DieBranch(Strip(line), Len(available_dice)) = "error"
    /\ log' = Append(log, Entry("error", DiePrompt(TurnPlayer), Unset))
    /\ pc' = "exit1"
    /\ UNCHANGED <<valvars, drawvars, twinvars>>
    /\ UNCHANGED <<variant, dice_list, available_dice, computer_dice, user_dice,
                   first_player, secret_key, nextKey, random_number,
                   stored_choice, computer_choice, user_choice, index,
                   computer_throw, user_throw, invalid>>

DieInvalid ==
    /\ AtDiePrompt
    /\ invalid < MaxInvalid
    /\ \E line \in Inputs :
         DieBranch(Strip(line), Len(available_dice)) = "invalid"
    /\ log' = Append(log, Entry("invalid", DiePrompt(TurnPlayer), Unset))
    /\ invalid' = invalid + 1
    /\ UNCHANGED <<valvars, drawvars, twinvars>>
    /\ UNCHANGED <<variant, pc, dice_list, available_dice, computer_dice,
                   user_dice, first_player, secret_key, nextKey, random_number,
                   stored_choice, computer_choice, user_choice, index,
                   computer_throw, user_throw>>

(* ------------------------------ the throws ---------------------------- *)

\* game.py: both throws by generate_throw, keyed with self.secret_key and a
\* random seed, printed with the key, and compared.
GenerateThrows ==
    /\ variant = "game"
    /\ pc = "throws"
    /\ \E fair_c \in FairNumbersModulo(0, FaceCount(computer_dice) - 1),
          fair_u \in FairNumbersModulo(0, FaceCount(user_dice) - 1) :
         LET c_throw == Values(computer_dice)[fair_c + 1]
             u_throw == Values(user_dice)[fair_u + 1]
         IN  /\ computer_throw' = c_throw
             /\ user_throw' = u_throw
             /\ log' = log \o <<KeyUse("throw_computer", secret_key),
                                Draw("throw_computer", fair_c),
                                KeyUse("throw_user", secret_key),
                                Draw("throw_user", fair_u),
                                Reveal("throw_computer", c_throw, secret_key),
                                Reveal("throw_user", u_throw, secret_key),
                                Reported(Outcome(c_throw, u_throw))>>
    /\ pc' = "done"
    /\ UNCHANGED <<valvars, drawvars, twinvars>>
    /\ UNCHANGED <<variant, dice_list, available_dice, computer_dice, user_dice,
                   first_player, secret_key, nextKey, random_number,
                   stored_choice, computer_choice, user_choice, index, invalid>>

\* game2.py: play_game draws computer_choice anew (the key argument of
\* generate_fair_number is not used).
DrawComputerChoice ==
    /\ variant = "game2"
    /\ pc = "draw"
    /\ \E number \in FairNumbersRejection(0, FaceCount(computer_dice) - 1) :
         /\ computer_choice' = number
         /\ log' = Append(log, Draw("throw", number))
    /\ pc' = "pick_user"
    /\ UNCHANGED <<valvars, drawvars, twinvars>>
    /\ UNCHANGED <<variant, dice_list, available_dice, computer_dice, user_dice,
                   first_player, secret_key, nextKey, random_number,
                   stored_choice, user_choice, index, computer_throw,
                   user_throw, invalid>>

\* manual_pick is called with the computer's die (gam4.py), then the user's.
PickDie == IF pc = "pick_computer" THEN computer_dice ELSE user_dice

AtPickPrompt == pc \in {"pick_computer", "pick_user"}

\* gam4.py: the number typed for the computer's die is computer_choice.
PickComputer ==
    /\ pc = "pick_computer"
    /\ \E line \in Inputs :
         LET choice == Strip(line) IN
         /\ NumberBranch(choice, FaceCount(PickDie)) = "accept"
         /\ computer_choice' = IntOf(choice)
         /\ log' = Append(log, Entry("accept", "pick_computer", IntOf(choice)))
    /\ pc' = "pick_user"
    /\ UNCHANGED <<valvars, drawvars, twinvars>>
    /\ UNCHANGED <<variant, dice_list, available_dice, computer_dice, user_dice,
                   first_player, secret_key, nextKey, random_number,
                   stored_choice, user_choice, index, computer_throw,
                   user_throw, invalid>>

\* The user's number, then the index, both throws and the outcome.  An
\* index beyond the user's die is an IndexError, which nothing catches.
PickUser ==
    /\ pc = "pick_user"
    /\ \E line \in Inputs :
         LET choice == Strip(line)
             picked == IntOf(choice)
             idx == FaceIndex(computer_choice, picked, FaceCount(computer_dice))
             c_throw == Values(computer_dice)[idx + 1]
             u_throw == Values(user_dice)[idx + 1]
         IN  /\ NumberBranch(choice, FaceCount(PickDie)) = "accept"
             /\ user_choice' = picked
             /\ index' = idx
             /\ computer_throw' = c_throw
             /\ IF idx < FaceCount(user_dice)
                THEN /\ user_throw' = u_throw
                     /\ log' = log \o <<Entry("accept", "pick_user", picked),
                                        Shown("choice", "computer", computer_choice),
                                        Shown("throw", "computer", c_throw),
                                        Shown("choice", "user", picked),
                                        Shown("throw", "user", u_throw),
                                        Reported(Outcome(c_throw, u_throw))>>
                     /\ pc' = "done"
                ELSE /\ user_throw' = user_throw
                     /\ log' = Append(log, Entry("accept", "pick_user", picked))
                     /\ pc' = "crash"
    /\ UNCHANGED <<valvars, drawvars, twinvars>>
    /\ UNCHANGED <<variant, dice_list, available_dice, computer_dice, user_dice,
                   first_player, secret_key, nextKey, random_number,
                   stored_choice, computer_choice, invalid>>

PickError ==
    /\ AtPickPrompt
    /\ \E line \in Inputs :
         NumberBranch(Strip(line), FaceCount(PickDie)) = "error"
    /\ log' = Append(log, Entry("error", pc, Unset))
    /\ pc' = "exit1"
    /\ UNCHANGED <<valvars, drawvars, twinvars>>
    /\ UNCHANGED <<variant, dice_list, available_dice, computer_dice, user_dice,
                   first_player, secret_key, nextKey, random_number,
                   stored_choice, computer_choice, user_choice, index,
                   computer_throw, user_throw, invalid>>

PickInvalid ==
    /\ AtPickPrompt
    /\ invalid < MaxInvalid
    /\ \E line \in Inputs :
         NumberBranch(Strip(line), FaceCount(PickDie)) = "invalid"
    /\ log' = Append(log, Entry("invalid", pc, Unset))
    /\ invalid' = invalid + 1
    /\ UNCHANGED <<valvars, drawvars, twinvars>>
    /\ UNCHANGED <<variant, pc, dice_list, available_dice, computer_dice,
                   user_dice, first_player, secret_key, nextKey, random_number,
                   stored_choice, computer_choice, user_choice, index,
                   computer_throw, user_throw>>

(* ------------------------------- the game ----------------------------- *)

Next ==
    \/ DetermineFirstMove
    \/ GuessAccept
    \/ GuessExit
    \/ GuessHelp
    \/ GuessInvalid
    \/ PlayTurnComputer2
    \/ PlayTurnComputer4
    \/ DieAccept
    \/ DieExit
    \/ DieError
    \/ DieInvalid
    \/ GenerateThrows
    \/ DrawComputerChoice
    \/ PickComputer
    \/ PickUser
    \/ PickError
    \/ PickInvalid

Spec == Init /\ [][Next]_vars

(* ---------------------- the session from its start -------------------- *)

\* DiceGame(dice_list=[]) in __main__, before validate_arguments.
InitSession ==
    /\ variant \in Variants
    /\ pc = "validate"
    /\ dice_list = <<>>
    /\ available_dice = <<>>
    /\ computer_dice = NoDie
    /\ user_dice = NoDie
    /\ first_player = "none"
    /\ secret_key = 0
    /\ nextKey = 1
    /\ random_number = Unset
    /\ stored_choice = Unset
    /\ computer_choice = Unset
    /\ user_choice = Unset
    /\ index = Unset
    /\ computer_throw = Unset
    /\ user_throw = Unset
    /\ invalid = 0
    /\ log = <<KeyGen(0)>>
    /\ argv \in SessionArgvs
    /\ dice_sides = Unset
    /\ arg_index = 0
    /\ error = "none"
    /\ arg_lower = Unset
    /\ arg_upper = Unset
    /\ random_value = Unset
    /\ fair_number = Unset
    /\ twin_available_dice = <<>>
    /\ twin_computer_dice = NoDie
    /\ twin_user_dice = NoDie

NextSession ==
    \/ ValidateStart
    \/ ValidateArg
    \/ ValidateDone
    \/ Next

SpecSession == InitSession /\ [][NextSession]_vars

(* ------------------- the combination rule on its own ------------------ *)

\* A face count and a counterpart value, as play_game holds them before the
\* index is computed.
InitComb ==
    /\ variant = "game2"
    /\ pc = "comb"
    /\ \E n \in 1..MaxCombFaces : dice_list = <<Asc(n)>>
    /\ available_dice = <<>>
    /\ computer_dice = 1
    /\ user_dice = 1
    /\ first_player = "none"
    /\ secret_key = 0
    /\ nextKey = 1
    /\ random_number = Unset
    /\ stored_choice = Unset
    /\ computer_choice = Unset
    /\ user_choice \in 0..(Len(dice_list[1]) - 1)
    /\ index = Unset
    /\ computer_throw = Unset
    /\ user_throw = Unset
    /\ invalid = 0
    /\ log = <<>>
    /\ argv = <<>>
    /\ dice_sides = Unset
    /\ arg_index = 0
    /\ error = "none"
    /\ arg_lower = Unset
    /\ arg_upper = Unset
    /\ random_value = Unset
    /\ fair_number = Unset
    /\ twin_available_dice = <<>>
    /\ twin_computer_dice = NoDie
    /\ twin_user_dice = NoDie

\* total = computer_choice + user_choice; index = total % len(values).
CombApply ==
    /\ pc = "comb"
    /\ \E committer \in 0..(FaceCount(computer_dice) - 1) :
         /\ computer_choice' = committer
         /\ index' = FaceIndex(committer, user_choice, FaceCount(computer_dice))
    /\ pc' = "combined"
    /\ UNCHANGED <<valvars, drawvars, twinvars>>
    /\ UNCHANGED <<variant, dice_list, available_dice, computer_dice, user_dice,
                   first_player, secret_key, nextKey, random_number,
                   stored_choice, user_choice, computer_throw, user_throw,
                   invalid, log>>

NextComb == CombApply

SpecComb == InitComb /\ [][NextComb]_vars

(* ------------------- two runs of the die selection -------------------- *)

\* play_game's two play_turn calls when the computer selects first, in two
\* runs at once: the runs share the dice set, first_player and every random
\* draw, and each has its own lines typed at the die prompts.

\* game.py, play_turn('computer', ...): the die is the one whose index is
\* typed at "Your selection", in each run.
TwinPlayTurnComputer ==
    /\ variant = "game"
    /\ pc = "turn1"
    /\ first_player = "computer"
    /\ \E line \in Inputs, twin_line \in Inputs :
         LET choice == Strip(line)
             twin_choice == Strip(twin_line)
             die == available_dice[IntOf(choice) + 1]
             twin_die == available_dice[IntOf(twin_choice) + 1]
         IN  /\ DieBranch(choice, Len(available_dice)) = "accept"
             /\ DieBranch(twin_choice, Len(available_dice)) = "accept"
             /\ computer_dice' = die
             /\ twin_computer_dice' = twin_die
             /\ log' = log \o <<Entry("accept", DiePrompt("computer"), IntOf(choice)),
                                Select("computer", die)>>
             /\ available_dice' = Remove(available_dice, die)
             /\ twin_available_dice' = Remove(available_dice, twin_die)
    /\ pc' = "turn2"
    /\ UNCHANGED <<valvars, drawvars>>
    /\ UNCHANGED <<variant, dice_list, user_dice, twin_user_dice, first_player,
                   secret_key, nextKey, random_number, stored_choice,
                   computer_choice, user_choice, index, computer_throw,
                   user_throw, invalid>>

\* game2.py, the computer's play_turn: the key, the randbelow index and the
\* fair number are the same draws in both runs.
TwinPlayTurnComputer2 ==
    /\ variant = "game2"
    /\ pc = "turn1"
    /\ first_player = "computer"
    /\ \E c \in 1..Len(available_dice) :
         LET key == GenerateSecureKey
             die == available_dice[c]
         IN  \E computer_number \in FairNumbersRejection(0, FaceCount(die) - 1) :
               /\ secret_key' = key
               /\ nextKey' = nextKey + 1
               /\ computer_dice' = die
               /\ twin_computer_dice' = die
               /\ stored_choice' = StoredNumber(computer_number)
               /\ log' = log \o <<KeyGen(key), Select("computer", die),
                                  Draw("commit", computer_number),
                                  KeyUse("throw", key),
                                  Digest("throw", GenerateHmac(computer_number, key))>>
               /\ available_dice' = Remove(available_dice, die)
               /\ twin_available_dice' = Remove(available_dice, die)
    /\ pc' = "turn2"
    /\ UNCHANGED <<valvars, drawvars>>
    /\ UNCHANGED <<variant, dice_list, user_dice, twin_user_dice, first_player,
                   random_number, computer_choice, user_choice, index,
                   computer_throw, user_throw, invalid>>

\* gam4.py, the computer's play_turn: the randbelow index is the same draw
\* in both runs.
TwinPlayTurnComputer4 ==
    /\ variant = "gam4"
    /\ pc = "turn1"
    /\ first_player = "computer"
    /\ \E c \in 1..Len(available_dice) :
         LET die == available_dice[c] IN
         /\ computer_dice' = die
         /\ twin_computer_dice' = die
         /\ log' = Append(log, Select("computer", die))
         /\ available_dice' = Remove(available_dice, die)
         /\ twin_available_dice' = Remove(available_dice, die)
    /\ pc' = "turn2"
    /\ UNCHANGED <<valvars, drawvars>>
    /\ UNCHANGED <<variant, dice_list, user_dice, twin_user_dice, first_player,
                   secret_key, nextKey, random_number, stored_choice,
                   computer_choice, user_choice, index, computer_throw,
                   user_throw, invalid>>

\* play_turn('user', ...) in every file: each run's line picks the user's
\* die from that run's pool.
TwinPlayTurnUser ==
    /\ pc = "turn2"
    /\ first_player = "computer"
    /\ twin_computer_dice # NoDie
    /\ \E line \in Inputs, twin_line \in Inputs :
         LET choice == Strip(line)
             twin_choice == Strip(twin_line)
             die == available_dice[IntOf(choice) + 1]
             twin_die == twin_available_dice[IntOf(twin_choice) + 1]
         IN  /\ DieBranch(choice, Len(available_dice)) = "accept"
             /\ DieBranch(twin_choice, Len(twin_available_dice)) = "accept"
             /\ user_dice' = die
             /\ twin_user_dice' = twin_die
             /\ log' = log \o <<Entry("accept", DiePrompt("user"), IntOf(choice)),
                                Select("user", die)>>
    /\ pc' = AfterSelection
    /\ UNCHANGED <<valvars, drawvars>>
    /\ UNCHANGED <<variant, dice_list, available_dice, twin_available_dice,
                   computer_dice, twin_computer_dice, first_player, secret_key,
                   nextKey, random_number, stored_choice, computer_choice,
                   user_choice, index, computer_throw, user_throw, invalid>>

NextTwin ==
    \/ DetermineFirstMove
    \/ GuessAccept
    \/ GuessExit
    \/ GuessHelp
    \/ GuessInvalid
    \/ TwinPlayTurnComputer
    \/ TwinPlayTurnComputer2
    \/ TwinPlayTurnComputer4
    \/ TwinPlayTurnUser

SpecTwin == Init /\ [][NextTwin]_vars

(* ------------------------ generate_fair_number ------------------------ *)

\* The largest lower end of the ranges asked for.
MaxLower == 1

\* The sizes of the ranges asked for: the face counts, and one more than
\* the two random bytes can tell apart.
RangeSizes == (1..MaxFaces) \cup {SampleSpace + 1}

\* range_size = upper - lower + 1
RangeSize == arg_upper - arg_lower + 1

\* game2.py: range_size * (2**16 // range_size)
Threshold == RangeSize * (SampleSpace \div RangeSize)

\* A call generate_fair_number(lower, upper, key) with lower <= upper.
InitRange ==
    /\ variant \in Variants
    /\ pc = "sampling"
    /\ dice_list = <<>>
    /\ available_dice = <<>>
    /\ computer_dice = NoDie
    /\ user_dice = NoDie
    /\ first_player = "none"
    /\ secret_key = 0
    /\ nextKey = 1
    /\ random_number = Unset
    /\ stored_choice = Unset
    /\ computer_choice = Unset
    /\ user_choice = Unset
    /\ index = Unset
    /\ computer_throw = Unset
    /\ user_throw = Unset
    /\ invalid = 0
    /\ log = <<>>
    /\ argv = <<>>
    /\ dice_sides = Unset
    /\ arg_index = 0
    /\ error = "none"
    /\ arg_lower \in 0..MaxLower
    /\ \E size \in RangeSizes : arg_upper = arg_lower + size - 1
    /\ random_value = Unset
    /\ fair_number = Unset
    /\ twin_available_dice = <<>>
    /\ twin_computer_dice = NoDie
    /\ twin_user_dice = NoDie

\* game.py, gam4.py: the first two bytes of the HMAC modulo the range size,
\* plus lower; no sample is refused.
ReduceModulo ==
    /\ variant # "game2"
    /\ pc = "sampling"
    /\ \E raw \in RawSamples :
         /\ random_value' = raw
         /\ fair_number' = (raw % RangeSize) + arg_lower
    /\ pc' = "returned"
    /\ UNCHANGED <<valvars, twinvars>>
    /\ UNCHANGED <<arg_lower, arg_upper>>
    /\ UNCHANGED <<variant, dice_list, available_dice, computer_dice, user_dice,
                   first_player, secret_key, nextKey, random_number,
                   stored_choice, computer_choice, user_choice, index,
                   computer_throw, user_throw, invalid, log>>

\* game2.py: two random bytes not below the threshold; the loop goes round.
RejectSample ==
    /\ variant = "game2"
    /\ pc = "sampling"
    /\ \E raw \in RawSamples :
         /\ ~(raw < Threshold)
         /\ random_value' = raw
    /\ UNCHANGED <<valvars, twinvars>>
    /\ UNCHANGED <<arg_lower, arg_upper, fair_number>>
    /\ UNCHANGED <<variant, pc, dice_list, available_dice, computer_dice,
                   user_dice, first_player, secret_key, nextKey, random_number,
                   stored_choice, computer_choice, user_choice, index,
                   computer_throw, user_throw, invalid, log>>

\* game2.py: two random bytes below the threshold; break and return.
AcceptSample ==
    /\ variant = "game2"
    /\ pc = "sampling"
    /\ \E raw \in RawSamples :
         /\ raw < Threshold
         /\ random_value' = raw
         /\ fair_number' = (raw % RangeSize) + arg_lower
    /\ pc' = "returned"
    /\ UNCHANGED <<valvars, twinvars>>
    /\ UNCHANGED <<arg_lower, arg_upper>>
    /\ UNCHANGED <<variant, dice_list, available_dice, computer_dice, user_dice,
                   first_player, secret_key, nextKey, random_number,
                   stored_choice, computer_choice, user_choice, index,
                   computer_throw, user_throw, invalid, log>>

NextRange ==
    \/ ReduceModulo
    \/ RejectSample
    \/ AcceptSample

SpecRange == InitRange /\ [][NextRange]_vars

\* The random source is fair: a return that stays possible is taken.
SpecRangeFair ==
    /\ InitRange
    /\ [][NextRange]_vars
    /\ WF_vars(ReduceModulo)
    /\ WF_vars(AcceptSample)

(* ------------------------------ properties ---------------------------- *)

Positions == DOMAIN log

Is(i, ev, ex) == log[i].ev = ev /\ log[i].ex = ex

\* What a verifier does with a revealed value and key: the HMAC of the
\* value's decimal text, compared with the published digest as hexadecimal
\* numbers (the case of the letters does not matter).
Verifies(value, key, published) ==
    Upper(HexDigest(Hmac(key, Str(value)))) = Upper(published)

TurnEntries == { i \in Positions : log[i].ev \in EntryKinds /\ log[i].ex = "turn" }
TurnAccepted == { i \in TurnEntries : log[i].ev = "accept" }
TurnDigests == { i \in Positions : Is(i, "digest", "turn") }
TurnReveals == { i \in Positions : Is(i, "reveal", "turn") }

\* C1: in the turn-order exchange the HMAC is published before any entry is
\* read at the guess prompt, at most one guess (0 or 1) is accepted and
\* exactly one once the exchange is over, the value and key are revealed only
\* after that guess, and nothing is read at the guess prompt after the reveal.
C1_TurnOrderExchangeOrdering ==
    /\ \A i \in TurnEntries : \E d \in TurnDigests : d < i
    /\ Cardinality(TurnAccepted) <= 1
    /\ \A a \in TurnAccepted : log[a].val \in {0, 1}
    /\ \A r \in TurnReveals : \E a \in TurnAccepted : a < r
    /\ \A r \in TurnReveals : \A i \in TurnEntries : i < r
    /\ Cardinality(TurnReveals) <= 1
    /\ (pc \notin {"start", "guess", "exit0", "crash"} \/ first_player # "none")
         => (Cardinality(TurnAccepted) = 1 /\ Cardinality(TurnReveals) = 1)

\* An invalid entry, then the accepted guess and the reveal.
C1_Witness ==
    /\ TurnReveals # {}
    /\ \E i \in TurnEntries : log[i].ev = "invalid"
    /\ first_player = "computer"
    /\ pc = "turn1"

\* C2: every revealed (value, key) pair verifies against every digest
\* published for its exchange, and that digest was published before.
C2_RevealMatchesDigest ==
    \A r \in Positions : \A d \in Positions :
        (log[r].ev = "reveal" /\ log[d].ev = "digest" /\ log[d].ex = log[r].ex)
            => (d < r /\ Verifies(log[r].val, log[r].key, log[d].dig))

\* A reveal after as many invalid entries as a session allows.
C2_Witness ==
    /\ \E r \in TurnReveals : log[r].val = 1
    /\ Cardinality({ i \in TurnEntries : log[i].ev \in {"invalid", "help"} }) = MaxInvalid

(* The throws.  A side's throw exchange is tagged "throw_computer" or     *)
(* "throw_user"; game2.py's one exchange for both sides is tagged "throw". *)

Sides == {"computer", "user"}

SideExchanges(side) ==
    {"throw", IF side = "computer" THEN "throw_computer" ELSE "throw_user"}

SideDie(side) == IF side = "computer" THEN computer_dice ELSE user_dice
SideThrow(side) == IF side = "computer" THEN computer_throw ELSE user_throw

\* The house's random contributions to a side's throw, and the numbers the
\* user entered as his contribution.
HouseDraws(side) ==
    { i \in Positions : log[i].ev = "draw" /\ log[i].ex \in SideExchanges(side) }
UserContributions == { i \in Positions : Is(i, "accept", "pick_user") }

\* Position w holds a house contribution and position u a user contribution
\* that give the side's throw by the combination rule.
Combines(side, w, u) ==
    LET n == FaceCount(SideDie(side)) IN
    /\ log[w].val \in 0..(n - 1)
    /\ log[u].val \in 0..(n - 1)
    /\ SideThrow(side) = Values(SideDie(side))[FaceIndex(log[w].val, log[u].val, n) + 1]

\* C3: each resolved throw has a house contribution drawn at random, a key
\* generated for it after the turn-order reveal, and the digest of that
\* contribution under that key published before the user's contribution is
\* read.
C3_ThrowBeginsWithCommitment ==
    pc = "done" =>
      \A side \in Sides :
        \E w \in HouseDraws(side) : \E g \in Positions : \E d \in Positions :
          \E u \in UserContributions :
            /\ Combines(side, w, u)
            /\ log[g].ev = "keygen"
            /\ \A r \in TurnReveals : r < g
            /\ log[d].ev = "digest" /\ log[d].ex \in SideExchanges(side)
            /\ Verifies(log[w].val, log[g].key, log[d].dig)
            /\ g < d /\ d < u

\* C4: a digest published for the house's throw contribution is the digest
\* of the number that is combined with the user's contribution.
C4_CombinedValueIsCommitted ==
    pc = "done" =>
      \A d \in Positions :
        (log[d].ev = "digest" /\ log[d].ex = "throw")
          => Verifies(computer_choice, log[d].dig.mac.key, log[d].dig)

\* C5: when the outcome is reported, every digest published before it has
\* had a value and key revealed that verify against it.
C5_DigestsRevealedBeforeOutcome ==
    \A o \in Positions : log[o].ev = "outcome" =>
      \A d \in Positions : (d < o /\ log[d].ev = "digest") =>
        \E r \in Positions :
          /\ d < r /\ r < o
          /\ log[r].ev = "reveal"
          /\ Verifies(log[r].val, log[r].key, log[d].dig)

\* C6: no key keys a hash after it was revealed, and no key keys the hashes
\* of two exchanges.
C6_KeySingleUse ==
    /\ \A i \in Positions : \A j \in Positions :
         (i < j /\ log[i].ev = "reveal" /\ log[j].ev = "keyuse")
           => log[j].key # log[i].key
    /\ \A i \in Positions : \A j \in Positions :
         (log[i].ev = "keyuse" /\ log[j].ev = "keyuse" /\ log[i].ex # log[j].ex)
           => log[j].key # log[i].key

\* C7: first_player is the user exactly when the accepted guess equals the
\* house's number, and the other side selects its die only after the first
\* player has selected.
C7_TurnOrderRule ==
    /\ first_player = "none" <=> TurnAccepted = {}
    /\ \A a \in TurnAccepted :
         first_player = (IF log[a].val = random_number THEN "user" ELSE "computer")
    /\ \A i \in Positions :
         (log[i].ev = "select" /\ log[i].ex # first_player)
           => \E j \in Positions : j < i /\ Is(j, "select", first_player)
    /\ (pc \in {"throws", "draw", "pick_computer", "pick_user", "done"})
         => \A side \in Sides : \E i \in Positions : Is(i, "select", side)

\* Both dice selected, the user first.
C7_Witness ==
    /\ first_player = "user"
    /\ computer_dice # NoDie
    /\ user_dice # NoDie
    /\ random_number = 1

\* C8: each side's throw is the face of its own die at the index given by
\* the combination rule from a random contribution of the house and a
\* contribution entered by the user, both in 0..faces-1.
C8_ThrowCombinationRule ==
    pc = "done" =>
      \A side \in Sides :
        \E w \in HouseDraws(side) : \E u \in UserContributions :
          Combines(side, w, u)

\* C9: the two throws come from two exchanges, each with a house
\* contribution and a user contribution of its own.
C9_SeparateThrowExchanges ==
    pc = "done" =>
      \E wc \in HouseDraws("computer") : \E wu \in HouseDraws("user") :
        \E uc \in UserContributions : \E uu \in UserContributions :
          /\ wc # wu
          /\ uc # uu
          /\ Combines("computer", wc, uc)
          /\ Combines("user", wu, uu)

\* C10: for the face count n and the counterpart value of the state, every
\* index of 0..n-1 is given by exactly one committer value of 0..n-1.
C10_CombinationBijection ==
    LET n == FaceCount(computer_dice) IN
    /\ \A i \in 0..(n - 1) :
         Cardinality({ c \in 0..(n - 1) : FaceIndex(c, user_choice, n) = i }) = 1
    /\ pc = "combined" => index \in 0..(n - 1)

\* A sum that wraps round: 4 + 3 with five faces.
C10_Witness ==
    /\ pc = "combined"
    /\ FaceCount(computer_dice) = 5
    /\ user_choice = 3
    /\ computer_choice = 4
    /\ index = 2

\* C11: the die of the side that selected first is gone from the pool and
\* nothing else is, the order of the rest kept; the two selected dice are
\* different dice of dice_list, the second taken from that pool.
C11_SelectionByIdentity ==
    LET first == SideDie(first_player)
        second == SideDie(Other(first_player))
        Kept(d) == d # first
    IN  (first_player # "none" /\ first # NoDie) =>
          /\ first \in 1..Len(dice_list)
          /\ available_dice = SelectSeq([i \in 1..Len(dice_list) |-> i], Kept)
          /\ second # NoDie =>
               /\ second # first
               /\ \E i \in 1..Len(available_dice) : available_dice[i] = second

\* Two dice with the same faces selected, the first of them not the first
\* of the list.
C11_Witness ==
    /\ pc = "done"
    /\ Values(computer_dice) = Values(user_dice)
    /\ SideDie(first_player) = 2

(* validate_arguments. *)

\* A token that is an integer: white space, an optional sign, and decimal
\* digits, at least one.
IntegerText(token) ==
    \E a \in 0..Len(token) : \E b \in a..Len(token) :
        /\ \A i \in 1..a : token[i] = " "
        /\ \A i \in (b + 1)..Len(token) : token[i] = " "
        /\ \E first \in (a + 1)..b :
             /\ first - a <= 2
             /\ first = a + 2 => token[a + 1] \in {"+", "-"}
             /\ \A i \in first..b :
                  token[i] \in {"0", "1", "2", "3", "4", "5", "6", "7", "8", "9"}

\* The dice sets that are to be accepted.
ValidSet(args) ==
    /\ Len(args) >= 3
    /\ \A i \in 1..Len(args) :
         /\ \A t \in 1..Len(Split(args[i])) : IntegerText(Split(args[i])[t])
         /\ Len(Split(args[i])) >= 4
         /\ Len(Split(args[i])) = Len(Split(args[1]))

ValidationErrors ==
    {"not_enough_dice", "not_integer", "too_few_faces", "inconsistent_sides"}

GameNotPlayed ==
    /\ first_player = "none"
    /\ random_number = Unset
    /\ log = <<KeyGen(0)>>

\* C13: once validate_arguments is over, it has succeeded exactly for the
\* valid sets, whose dice are then the session's; otherwise one of the four
\* validation errors was raised, the program has exited with it and no game
\* was played.
C13_ValidationDecidesValidSets ==
    pc \notin {"validate", "args"} =>
      /\ error = "none" <=> ValidSet(argv)
      /\ error = "none" =>
           /\ Len(dice_list) = Len(argv)
           /\ \A i \in 1..Len(argv) : dice_list[i] = ParseValues(argv[i])
      /\ error # "none" =>
           /\ error \in ValidationErrors
           /\ pc = "exit1"
           /\ GameNotPlayed

\* A set with signs and white space accepted, the game about to start.
C13_Witness ==
    /\ pc = "start"
    /\ error = "none"
    /\ dice_list[1] = <<1, 2, 0 - 3, 4>>

\* C14: the one specification 1,2,3 is refused for its too few faces, and
\* the two specifications 1,2,3,4 and 1,2,3 for their differing face counts.
C14_PerDieErrorsReported ==
    pc = "exit1" =>
      /\ argv = <<Die123>> => error = "too_few_faces"
      /\ argv = <<Die1234, Die123>> => error = "inconsistent_sides"

\* C15: when validate_arguments raises, dice_list holds no die.
C15_ValidationAllOrNothing ==
    error # "none" => dice_list = <<>>

\* C20: in game2.py and gam4.py the index, once computed, is an index of
\* the house's die and of the user's die.
C20_FaceIndexInBothDice ==
    (variant \in {"game2", "gam4"} /\ index # Unset) =>
      /\ 0 <= index
      /\ index < FaceCount(computer_dice)
      /\ index < FaceCount(user_dice)

\* A validated session whose sum wraps round to an index of both dice.
C20_Witness ==
    /\ pc = "done"
    /\ variant = "gam4"
    /\ error = "none"
    /\ computer_dice # user_dice
    /\ computer_choice + user_choice > FaceCount(computer_dice)
    /\ index = computer_choice + user_choice - FaceCount(user_dice)

\* The face of a side's die that the combination rule gives for the
\* contributions at positions w and u of the log.
RecomputedFace(side, w, u) ==
    Values(SideDie(side))[FaceIndex(log[w].val, log[u].val,
                                    FaceCount(SideDie(side))) + 1]

Outcomes == { i \in Positions : log[i].ev = "outcome" }

\* The committer values of a side's throw, wherever they come from: the
\* house's draws, and the number entered for the house in gam4.py.
CommitterValues(side) ==
    HouseDraws(side) \cup { i \in Positions : Is(i, "accept", "pick_computer") }

\* C12: at the end of play_game one outcome has been reported, and it is the
\* comparison of the two faces recomputed by the combination rule from the
\* committer values and the user's contributions.
C12_OutcomeMatchesRecomputedThrows ==
    pc = "done" =>
      /\ Cardinality(Outcomes) = 1
      /\ \E wc \in CommitterValues("computer") : \E wu \in CommitterValues("user") :
           \E uc \in UserContributions : \E uu \in UserContributions :
             \A o \in Outcomes :
               log[o].ex = Outcome(RecomputedFace("computer", wc, uc),
                                   RecomputedFace("user", wu, uu))

(* ------------------------ entries at the prompts ---------------------- *)

\* A step that reads an entry which is neither a valid choice nor an exit
\* or help command.
RejectedEntry ==
    /\ Len(log') = Len(log) + 1
    /\ log'[Len(log')].ev \in {"invalid", "error"}

\* C16: an entry that is not a valid choice and not an exit or help command
\* leaves first_player, both selected dice, the pool, the secret key and the
\* committed value as they were, reveals nothing, does not end the program
\* with an error, and the same prompt is asked again.
C16_InvalidInputNoSideEffects ==
    [][RejectedEntry =>
         /\ UNCHANGED <<first_player, computer_dice, user_dice, available_dice,
                        secret_key, random_number, stored_choice>>
         /\ log'[Len(log')].ev # "error"
         /\ pc' = pc]_vars

ExitLines == { <<"x">>, <<"X">> }

\* C17: at every prompt (turn-order guess, die selection, throw
\* contribution) x or X is read as the exit command, which ends the process
\* with code 0.
C17_ExitAtEveryPrompt ==
    \A line \in ExitLines :
      /\ pc = "guess" => GuessBranch(Strip(line)) = "exit"
      /\ AtDiePrompt => DieBranch(Strip(line), Len(available_dice)) = "exit"
      /\ AtPickPrompt => NumberBranch(Strip(line), FaceCount(PickDie)) = "exit"

(* --------------------------- range reduction -------------------------- *)

\* C18: generate_fair_number returns a value of [lower, upper], and the raw
\* sample it took is below S - (S mod rangeSize), with S = 2^16, so that
\* every value of the range has the same number of accepted samples.
C18_UnbiasedRangeReduction ==
    pc = "returned" =>
      /\ arg_lower <= fair_number
      /\ fair_number <= arg_upper
      /\ random_value < SampleSpace - (SampleSpace % RangeSize)

\* C19: with a fair random source the draw loop of the session ends,
\* whatever the face count.
C19_DrawLoopEnds == (pc = "sampling") ~> (pc = "returned")

(* -------------------------------- help -------------------------------- *)

\* C21: in game.py, `?` at the turn-order prompt prints the probability
\* table and the same prompt is asked again: simulate_game never divides by
\* zero, whatever the dice of the validated set.
C21_HelpNeverFails ==
    \A i \in Positions :
      Is(i, "help", "turn") =>
        /\ i + 1 \in Positions
        /\ Is(i + 1, "table", "help")
        /\ (i + 1 = Len(log) => pc = "guess")

(* -------------------------- the house's die --------------------------- *)

\* C22: when the house selects first, two runs with the same dice set, the
\* same first_player and the same random draws give the house the same die,
\* whatever is typed at the die prompts of either run.
C22_HouseDieIndependentOfEntries ==
    (first_player = "computer" /\ twin_computer_dice # NoDie) =>
      computer_dice = twin_computer_dice

====
